---- MODULE Spec2Model ----
(***************************************************************************)
(* The deck state of App (src/App.tsx): the synthesized deck allSlides,    *)
(* the revealed deck visibleSlides, the generation status, the reveal      *)
(* timer of the streaming useEffect, and the asynchronous requests in      *)
(* flight (synthesis, per-slide hydration, manual regeneration).           *)
(*                                                                         *)
(* One step is one handler, timer callback or promise continuation,        *)
(* followed by the React commit it causes.  The streaming useEffect has    *)
(* [status.isStreaming, visibleSlides.length, allSlides] as dependencies   *)
(* and every state setter of the deck produces a new array, so the effect  *)
(* (cleanup, then body) runs with every commit: Commit applies it.         *)
(* Array positions are 1-based here; the code's index k is position k+1.   *)
(*                                                                         *)
(* Beside the deck: the branding configuration and the panel that sets it, *)
(* the pointer gestures and the scale control of one VisualElement, and    *)
(* the split of a content array into the columns of a column layout; the   *)
(* projection of one slide by SlideRenderer and by the PPTX exporter; the  *)
(* content block controls (duplicate, delete, drag and drop); the steps of *)
(* the page, the presentation overlay and the PDF export.                  *)
(***************************************************************************)
EXTENDS Integers, Sequences, FiniteSets, TLC

\* ---------------------------------------------------------------- bounds
MaxOps == 3      \* user operations: handleGenerate, handleSlideUpdate and
                 \* handleManualRegenerate calls together
MaxDeck == 2     \* slides returned by one synthesis
MaxItems == 7    \* content items of a slide rendered in columns
MaxBlocks == 5   \* content blocks of a slide that is rendered and exported

\* ---------------------------------------------------------------- values
Undef == "undefined"

\* contentUrl values: unset, the empty string, and the strings the two
\* resolutions return, tagged with the request that produced them.
NoUrl == <<"undefined", 0, 0>>
EmptyUrl == <<"", 0, 0>>
HydrationUrl(g, k) == <<"hydrated", g, k>>
RegenUrl(r) == <<"regenerated", r, 0>>
Truthy(url) == url # NoUrl /\ url # EmptyUrl

\* slide.visual === undefined; width 0 is an unset width.
NoVisual ==
    [present |-> FALSE, type |-> Undef, prompt |-> Undef, iconName |-> Undef,
     contentUrl |-> NoUrl, width |-> 0]

SynthVisual(type) ==
    [present |-> TRUE, type |-> type,
     prompt |-> IF type = "none" THEN Undef ELSE "p0",
     iconName |-> IF type = "icon" THEN "users" ELSE Undef,
     contentUrl |-> NoUrl, width |-> 0]

\* The (layout, visual) shapes a synthesized slide takes in this model.
Shapes ==
    << [layout |-> "TWO_COLUMN", visual |-> SynthVisual("image")],
       [layout |-> "TWO_COLUMN", visual |-> SynthVisual("icon")],
       [layout |-> "TITLE", visual |-> NoVisual],
       [layout |-> "CONTENT_BULLETS", visual |-> SynthVisual("none")] >>

\* An array entry that is undefined (a read past the end of an array).
UndefinedSlide ==
    [id |-> <<0, 0>>, title |-> Undef, layout |-> Undef, content |-> <<>>,
     visual |-> NoVisual]

\* generateSlidesFromContent: n slides, ids from the generation stamp g and
\* the position; p rotates the shapes so that every shape occurs at every
\* position.
Patterns == {0, 1, 2}

\* The id the model gives its slides: untrusted, here the same for every
\* slide of a response (the empty string in one response, a repeated id in
\* another).
ModelId(p) == <<-1, p % 2>>

\* JSON.parse(jsonStr): the slides as the model returned them.
ParsedSlides(n, p) ==
    [i \in 1..n |->
        LET sh == Shapes[((i - 1 + p) % Len(Shapes)) + 1]
        IN [id |-> ModelId(p), title |-> "T", layout |-> sh.layout,
            content |-> <<"a", "b">>, visual |-> sh.visual]]

\* The map with the spread last: ({ id: ..., ...s }) keeps the model's id.
AssignIds_ModelIdWins(slides, now) ==
    [i \in 1..Len(slides) |-> [slides[i] EXCEPT !.id = slides[i].id]]

\* slides.map((s, i) => ({ ...s, id: `slide-${Date.now()}-${i}` })), with the
\* clock reading now.
AssignIds(slides, now) ==
    [i \in 1..Len(slides) |-> [slides[i] EXCEPT !.id = <<now, i>>]]

GeneratedSlides(g, n, p) == AssignIds(ParsedSlides(n, p), g)

IdleStatus ==
    [isGenerating |-> FALSE, isStreaming |-> FALSE, error |-> "null",
     success |-> FALSE]

\* BrandingConfig.borderRadius
BorderRadii == {"rounded-xl", "rounded-none"}

\* useState<BrandingConfig>: the fields the model follows.
DefaultBranding ==
    [illustrationStyle |-> "flat", mode |-> "light", borderRadius |-> "rounded-xl"]

\* ------------------------------------------------- geometry of a visual
\* Positions are counted in fifths of a percent (a pointer delta of one
\* pixel moves a position by 0.2), scale in tenths, lengths in layout units;
\* a width of p percent is the ratio num / den = p / 100 (0 is unset).
\* -1 is an unset position or scale.
PxUnits == 64    \* layout units in one CSS pixel

Unset == -1

OrDefault(v, d) == IF v = Unset THEN d ELSE v

Ratio(num, den) == [num |-> num, den |-> den]

FullWidth == Ratio(1, 1)

UnsetWidth == Ratio(0, 1)

UnsetGeometry ==
    [horizontalPos |-> Unset, verticalPos |-> Unset, width |-> UnsetWidth,
     scale |-> Unset]

\* widthStyle: visual.width ? `${visual.width}%` : '100%'
WidthStyle(width) == IF width.num = 0 THEN FullWidth ELSE width

\* The refs of a VisualElement and the style of its container, in a parent
\* of the given width.
IdlePointer(parentWidth) ==
    [isDragging |-> FALSE, isResizing |-> FALSE,
     startPos |-> [x |-> 0, y |-> 0, width |-> 0, vPos |-> 250, hPos |-> 250],
     styleWidth |-> FullWidth, objectPosition |-> <<250, 250>>,
     parentWidth |-> parentWidth]

MathMin(a, b) == IF a < b THEN a ELSE b

MathMax(a, b) == IF a > b THEN a ELSE b

\* Math.max(lo, Math.min(hi, x))
Clamp(lo, hi, x) == MathMax(lo, MathMin(hi, x))

\* Math.max(20, Math.min(100, percent)) on a ratio.
ClampWidth(percent) ==
    IF percent.num > percent.den THEN Ratio(1, 1)
    ELSE IF 5 * percent.num < percent.den THEN Ratio(1, 5)
    ELSE percent

\* getBoundingClientRect().width of the container, in layout units: the
\* used value of its style width in a parent of parentWidth units.  The
\* engine holds lengths in whole layout units, rounding down or to nearest.
Roundings == {"floor", "nearest"}

RectWidth(styleWidth, parentWidth, rounding) ==
    IF rounding = "floor"
    THEN (styleWidth.num * parentWidth) \div styleWidth.den
    ELSE (2 * styleWidth.num * parentWidth + styleWidth.den)
            \div (2 * styleWidth.den)

\* The sanitized value of <input type="range" min="1" max="3" step="0.1">.
RangeValue(raw) == Clamp(10, 30, raw)

\* ------------------------------------------------------- column layouts
Items == {"a", "b", "c"}

Contents == UNION {[1..n -> Items] : n \in 0..MaxItems}

NoSplit == [content |-> <<>>, k |-> 0, columns |-> <<>>]

\* Math.ceil(n / k) with the quotient rounded down instead.
MathCeil_Floor(n, k) == n \div k

\* Math.ceil(n / k)
MathCeil(n, k) == (n + k - 1) \div k

\* Array.prototype.slice(start, end) for 0 <= start, end.
Slice(arr, start, end) ==
    LET from == IF start > Len(arr) THEN Len(arr) ELSE start
        to == IF end > Len(arr) THEN Len(arr) ELSE end
    IN IF from < to THEN SubSeq(arr, from + 1, to) ELSE <<>>

\* leftCol and rightCol of the TWO_COLUMN case.
TwoColumns(content) ==
    LET midPoint == MathCeil(Len(content), 2)
    IN <<Slice(content, 0, midPoint), Slice(content, midPoint, Len(content))>>

\* c1, c2 and c3 of the THREE_COLUMN case.
ThreeColumns(content) ==
    LET chunk == MathCeil(Len(content), 3)
    IN <<Slice(content, 0, chunk), Slice(content, chunk, chunk * 2),
         Slice(content, chunk * 2, Len(content))>>

\* ------------------------------------------------- steps and presentation
\* useState(1), useState(false), useState(0)
InitialNav == [step |-> 1, isPresenting |-> FALSE, currentSlideIndex |-> 0]

\* ------------------------------------------------------------ block drags
\* A string is the sequence of its characters; no drag has set text/plain.
NoData == <<>>

\* ------------------------------------------------------ render and export
\* No slide has been projected: rendered and exported hold at most one value.
NoView == [slide |-> UndefinedSlide, rendered |-> <<>>, exported |-> <<>>]

\* useState<'json' | 'pdf' | 'pptx' | null>(null), and no handleExportPDF
\* call made: slides is the allSlides the call closed over, i the position
\* of the slide whose capture it awaits, pages the images on each page of
\* its jsPDF document, saved what pdf.save wrote (at most one document).
NoExport == [exporting |-> "null", called |-> FALSE, slides |-> <<>>, i |-> 0,
             pages |-> <<>>, saved |-> <<>>, alerted |-> FALSE]

VARIABLES
    allSlides,      \* useState<Slide[]>: the deck held for editing and export
    visibleSlides,  \* useState<Slide[]>: the deck displayed during reveal
    status,         \* useState<GenerationStatus>
    timer,          \* <<>> or <<s>>: the pending reveal timer, closed over allSlides = s
    synthesis,      \* "idle" or "awaiting": handleGenerate at its await
    hydrations,     \* hydration continuations awaiting their resolution
    regens,         \* handleManualRegenerate calls awaiting their resolution
    genCount,       \* handleGenerate calls so far (the generation stamp)
    editCount,      \* handleSlideUpdate calls so far
    regenCount,     \* handleManualRegenerate calls so far
    deckAtCall,     \* history: the two arrays when the pending handleGenerate was called
    branding,       \* useState<BrandingConfig>
    geometry,       \* the geometry fields of the visual a VisualElement shows
    pointer,        \* that VisualElement's refs, and the style of its container
    split,          \* the content array a column layout renders, and its columns
    nav,            \* useState step, isPresenting and currentSlideIndex
    dataTransfer,   \* the text/plain data of the drag in progress
    view,           \* the slide a SlideRenderer and the PPTX exporter project
    pdf             \* the handleExportPDF call in progress, and what it saved

\* The state outside the deck: it changes by user actions on the branding
\* panel, on a visual and by a render only.
panelVars == <<branding, geometry, pointer, split, dataTransfer, view, pdf>>

vars ==
    <<allSlides, visibleSlides, status, timer, synthesis, hydrations, regens,
      genCount, editCount, regenCount, deckAtCall, branding, geometry, pointer,
      split, nav, dataTransfer, view, pdf>>

\* The state of the deck and of the calls at their awaits.
deckState ==
    <<allSlides, visibleSlides, status, timer, synthesis, hydrations, regens,
      genCount, editCount, regenCount, deckAtCall>>

\* The user operations so far.
UserOps == genCount + editCount + regenCount

\* No handleGenerate call is at its await.
NoCall == [all |-> <<>>, vis |-> <<>>]

\* The deck after construction of App.
DeckInit ==
    /\ allSlides = <<>>
    /\ visibleSlides = <<>>
    /\ status = IdleStatus
    /\ timer = <<>>
    /\ synthesis = "idle"
    /\ hydrations = {}
    /\ regens = {}
    /\ genCount = 0
    /\ editCount = 0
    /\ regenCount = 0
    /\ deckAtCall = NoCall
    /\ nav = InitialNav

\* The state outside the deck and the panel after construction.
RestInit ==
    /\ dataTransfer = NoData
    /\ view = NoView
    /\ pdf = NoExport

Init ==
    /\ DeckInit
    /\ RestInit
    /\ branding = DefaultBranding
    /\ geometry = UnsetGeometry
    /\ pointer = IdlePointer(300 * PxUnits)
    /\ split = NoSplit

\* ------------------------------------------------------- streaming effect
\* The effect without its status.isStreaming test.
StreamingEffect_NoStreamingTest(st, vis, all) ==
    IF Len(all) > 0
    THEN IF Len(vis) < Len(all)
         THEN [status |-> st, timer |-> <<all>>]
         ELSE [status |-> [st EXCEPT !.isStreaming = FALSE, !.success = TRUE],
               timer |-> <<>>]
    ELSE [status |-> st, timer |-> <<>>]

\* The body of the streaming useEffect on the committed state: the timer it
\* leaves pending (the cleanup has cleared the previous one) and the status
\* after its setStatus.
StreamingEffect(st, vis, all) ==
    IF st.isStreaming /\ Len(all) > 0
    THEN IF Len(vis) < Len(all)
         THEN [status |-> st, timer |-> <<all>>]
         ELSE [status |-> [st EXCEPT !.isStreaming = FALSE, !.success = TRUE],
               timer |-> <<>>]
    ELSE [status |-> st, timer |-> <<>>]

\* A commit of the deck state, with the effect run on it.
Commit(st, vis, all) ==
    LET e == StreamingEffect(st, vis, all)
    IN /\ allSlides' = all
       /\ visibleSlides' = vis
       /\ status' = e.status
       /\ timer' = e.timer

\* The updater reading one position too far: allSlides[prev.length + 1].
Reveal_SkipOne(prev, closure) ==
    LET nextSlideIndex == Len(prev) + 1
    IN Append(prev, IF nextSlideIndex < Len(closure)
                    THEN closure[nextSlideIndex + 1]
                    ELSE UndefinedSlide)

\* The timer callback's updater: prev => [...prev, allSlides[prev.length]].
Reveal(prev, closure) ==
    LET nextSlideIndex == Len(prev)
    IN Append(prev, IF nextSlideIndex < Len(closure)
                    THEN closure[nextSlideIndex + 1]
                    ELSE UndefinedSlide)

\* The timer callback resetting the branding as well.
Tick_ResetsBranding ==
    /\ timer # <<>>
    /\ Commit(status, Reveal(visibleSlides, timer[1]), allSlides)
    /\ branding' = DefaultBranding
    /\ UNCHANGED <<synthesis, hydrations, regens, genCount, editCount, regenCount>>
    /\ UNCHANGED <<deckAtCall, nav, geometry, pointer, split, dataTransfer, view, pdf>>

Tick ==
    /\ timer # <<>>
    /\ Commit(status, Reveal(visibleSlides, timer[1]), allSlides)
    /\ UNCHANGED <<synthesis, hydrations, regens, genCount, editCount, regenCount>>
    /\ UNCHANGED <<deckAtCall, nav, panelVars>>

\* ---------------------------------------------------------- handleGenerate
\* The hydration forEach issues a request for slide at position k when the
\* guards of lines 167-175 select a resolver.
NeedsHydration(slide) ==
    /\ slide.visual.present
    /\ slide.visual.type # "none"
    /\ \/ slide.visual.type = "icon" /\ slide.visual.iconName # Undef
       \/ slide.visual.type \in {"image", "illustration"} /\ slide.visual.prompt # Undef

\* handleGenerate up to its await.  The button that calls it is disabled
\* while status.isGenerating.  It is on step 1, which "1. Content" opens from
\* every step (setStep(1), line 406): the two clicks are one step here.  The
\* presentation overlay replaces the page, and the button with it.
HandleGenerate ==
    /\ ~status.isGenerating
    /\ ~nav.isPresenting
    /\ UserOps < MaxOps
    /\ genCount' = genCount + 1
    /\ synthesis' = "awaiting"
    /\ Commit([isGenerating |-> TRUE, isStreaming |-> FALSE, error |-> "null",
               success |-> FALSE], <<>>, <<>>)
    /\ deckAtCall' = [all |-> allSlides, vis |-> visibleSlides]
    /\ nav' = [nav EXCEPT !.step = 1]
    /\ UNCHANGED <<hydrations, regens, editCount, regenCount, panelVars>>

\* generateSlidesFromContent resolved with n slides: the continuation sets the
\* deck, enters streaming and issues the hydration requests.
SynthesisResolve(n, p) ==
    /\ synthesis = "awaiting"
    /\ synthesis' = "idle"
    /\ LET generatedSlides == GeneratedSlides(genCount, n, p)
       IN /\ Commit([status EXCEPT !.isGenerating = FALSE, !.isStreaming = TRUE],
                    visibleSlides, generatedSlides)
          /\ hydrations' = hydrations \cup
                {[gen |-> genCount, index |-> k] :
                    k \in {j \in 1..n : NeedsHydration(generatedSlides[j])}}
    /\ deckAtCall' = NoCall
    /\ nav' = [nav EXCEPT !.step = 2]
    /\ UNCHANGED <<regens, genCount, editCount, regenCount, panelVars>>

\* generateSlidesFromContent threw: the catch block of handleGenerate.
SynthesisFail ==
    /\ synthesis = "awaiting"
    /\ synthesis' = "idle"
    /\ Commit([isGenerating |-> FALSE, isStreaming |-> FALSE,
               error |-> "Failed to generate", success |-> FALSE],
              visibleSlides, allSlides)
    /\ deckAtCall' = NoCall
    /\ UNCHANGED <<hydrations, regens, genCount, editCount, regenCount, nav, panelVars>>

\* The merge without the spread of the old visual: visual: { contentUrl: url }.
WithContentUrl_NoSpread(slide, url) ==
    [slide EXCEPT !.visual = [NoVisual EXCEPT !.present = TRUE, !.contentUrl = url]]

\* { ...slide, visual: { ...slide.visual!, contentUrl: url } }
WithContentUrl(slide, url) ==
    [slide EXCEPT !.visual = [@ EXCEPT !.present = TRUE, !.contentUrl = url]]

\* The setAllSlides updater of the hydration merge (index is a position).
HydrateAll(prevSlides, index, url) ==
    IF index <= Len(prevSlides) /\ prevSlides[index] # UndefinedSlide
    THEN [prevSlides EXCEPT ![index] = WithContentUrl(@, url)]
    ELSE prevSlides

\* The visible merge with its bound off by one: index < prevVisible.length - 1.
HydrateVisible_OffByOne(prevVisible, index, url) ==
    IF index < Len(prevVisible)
    THEN [prevVisible EXCEPT ![index] = WithContentUrl(@, url)]
    ELSE prevVisible

\* The setVisibleSlides updater of the hydration merge.
HydrateVisible(prevVisible, index, url) ==
    IF index <= Len(prevVisible)
    THEN [prevVisible EXCEPT ![index] = WithContentUrl(@, url)]
    ELSE prevVisible

\* The hydration continuation with a catch block that reports to the deck:
\* setStatus({ ..., isStreaming: false, error }).
HydrationResolve_FailureToStatus(h, ok) ==
    /\ h \in hydrations
    /\ hydrations' = hydrations \ {h}
    /\ IF ok
       THEN LET url == HydrationUrl(h.gen, h.index)
            IN Commit(status, HydrateVisible(visibleSlides, h.index, url),
                      HydrateAll(allSlides, h.index, url))
       ELSE Commit([isGenerating |-> FALSE, isStreaming |-> FALSE,
                    error |-> "Failed to hydrate", success |-> FALSE],
                   visibleSlides, allSlides)
    /\ UNCHANGED <<synthesis, regens, genCount, editCount, regenCount>>
    /\ UNCHANGED <<deckAtCall, nav, panelVars>>

\* A hydration request resolved: with content (merged), or with the empty
\* string or an exception (dropped).
HydrationResolve(h, ok) ==
    /\ h \in hydrations
    /\ hydrations' = hydrations \ {h}
    /\ IF ok
       THEN LET url == HydrationUrl(h.gen, h.index)
            IN Commit(status, HydrateVisible(visibleSlides, h.index, url),
                      HydrateAll(allSlides, h.index, url))
       ELSE UNCHANGED <<allSlides, visibleSlides, status, timer>>
    /\ UNCHANGED <<synthesis, regens, genCount, editCount, regenCount>>
    /\ UNCHANGED <<deckAtCall, nav, panelVars>>

\* -------------------------------------------------------- handleSlideUpdate
\* { ...s, ...updates }: updates is a record holding some of the fields.
ApplyUpdates(s, updates) ==
    [id |-> IF "id" \in DOMAIN updates THEN updates.id ELSE s.id,
     title |-> IF "title" \in DOMAIN updates THEN updates.title ELSE s.title,
     layout |-> IF "layout" \in DOMAIN updates THEN updates.layout ELSE s.layout,
     content |-> IF "content" \in DOMAIN updates THEN updates.content ELSE s.content,
     visual |-> IF "visual" \in DOMAIN updates THEN updates.visual ELSE s.visual]

\* prev.map(s => s.id === id ? { ...s, ...updates } : s)
UpdateById(prev, id, updates) ==
    [i \in 1..Len(prev) |->
        IF prev[i].id = id THEN ApplyUpdates(prev[i], updates) ELSE prev[i]]

\* The slides a SlideRenderer is mounted for: visibleSlides in step 2,
\* allSlides in step 3.
Rendered ==
    {visibleSlides[i] : i \in 1..Len(visibleSlides)}
        \cup {allSlides[i] : i \in 1..Len(allSlides)}

\* VisualElement is mounted for the slide (lines 1061-1100, 1141, 1162).
ShowsVisualElement(s) ==
    /\ s.visual.present
    /\ s.visual.type # "none"
    /\ \/ s.layout = "TWO_COLUMN"
       \/ s.layout = "CONTENT_BULLETS" /\ s.visual.type # "icon"

\* The updates the controls of a rendered slide pass to onUpdate here: a
\* title edit, and a width committed by the resize handle (shown for a
\* non-icon visual that has content).
UpdatesFor(s) ==
    {[title |-> "T2"]}
        \cup IF ShowsVisualElement(s) /\ s.visual.type # "icon"
                /\ Truthy(s.visual.contentUrl)
             THEN {[visual |-> [s.visual EXCEPT !.width = 60]]}
             ELSE {}

\* handleSlideUpdate on the deck.  The overlay of the presentation mounts
\* its SlideRenderer without onUpdate.
SlideUpdate(id, updates) ==
    /\ UserOps < MaxOps
    /\ ~nav.isPresenting
    /\ editCount' = editCount + 1
    /\ Commit(status, UpdateById(visibleSlides, id, updates),
              UpdateById(allSlides, id, updates))
    /\ UNCHANGED <<synthesis, hydrations, regens, genCount, regenCount>>
    /\ UNCHANGED <<deckAtCall, nav>>

HandleSlideUpdate(id, updates) ==
    /\ SlideUpdate(id, updates)
    /\ UNCHANGED panelVars

\* ---------------------------------------------------- handleManualRegenerate
\* allSlides.findIndex(s => s.id === slideId), as a position; 0 for -1.
FindIndex(slides, slideId) ==
    IF \E i \in 1..Len(slides) : slides[i].id = slideId
    THEN CHOOSE i \in 1..Len(slides) :
            /\ slides[i].id = slideId
            /\ \A j \in 1..(i - 1) : slides[j].id # slideId
    ELSE 0

\* The regenerate controls of VisualElement are shown when it is not loading:
\* the visual has content.  The icon branch calls handleAction('icon'), the
\* other branch handleAction('image').
CanRegenerate(s) ==
    /\ ShowsVisualElement(s)
    /\ Truthy(s.visual.contentUrl)

ActionType(s) == IF s.visual.type = "icon" THEN "icon" ELSE "image"

\* handleManualRegenerate up to its await.  The handler closes over the
\* allSlides of the render that created it.
StartRegenerate(s) ==
    /\ UserOps < MaxOps
    /\ ~nav.isPresenting
    /\ s \in Rendered
    /\ CanRegenerate(s)
    /\ FindIndex(allSlides, s.id) # 0
    /\ regenCount' = regenCount + 1
    /\ regens' = regens \cup
          {[req |-> regenCount + 1, slideId |-> s.id,
            slideIndex |-> FindIndex(allSlides, s.id), type |-> ActionType(s),
            prompt |-> "p1", closure |-> allSlides]}
    /\ UNCHANGED <<allSlides, visibleSlides, status, timer, synthesis, hydrations,
                   genCount, editCount>>
    /\ UNCHANGED <<deckAtCall, nav, panelVars>>

\* The slide handleManualRegenerate writes at slideIndex (lines 224-232).
RegeneratedSlide(old, type, prompt, newContentUrl) ==
    [old EXCEPT !.visual =
        [@ EXCEPT !.present = TRUE,
                  !.contentUrl = newContentUrl,
                  !.prompt = prompt,
                  !.type = IF type = "image"
                           THEN (IF old.visual.type = "illustration"
                                 THEN "illustration" ELSE "image")
                           ELSE "icon"]]

\* updatedSlides of handleManualRegenerate: built from the closure.
UpdatedSlides(r, newContentUrl) ==
    [r.closure EXCEPT ![r.slideIndex] =
        RegeneratedSlide(@, r.type, r.prompt, newContentUrl)]

\* prev.map(s => s.id === slideId ? updatedSlides[slideIndex] : s)
ReplaceById(prev, slideId, slide) ==
    [i \in 1..Len(prev) |-> IF prev[i].id = slideId THEN slide ELSE prev[i]]

\* A regeneration resolved.  generateImageForSlide returns a data URI or
\* throws; searchIcon returns markup, or the empty string on a miss or error.
RegenerateResolve(r, outcome) ==
    /\ r \in regens
    /\ regens' = regens \ {r}
    /\ IF outcome = "throw"
       THEN /\ r.type = "image"
            /\ UNCHANGED <<allSlides, visibleSlides, status, timer>>
       ELSE /\ outcome = "empty" => r.type = "icon"
            /\ LET newContentUrl ==
                       IF outcome = "empty" THEN EmptyUrl ELSE RegenUrl(r.req)
                   updatedSlides == UpdatedSlides(r, newContentUrl)
               IN Commit(status,
                         ReplaceById(visibleSlides, r.slideId,
                                     updatedSlides[r.slideIndex]),
                         updatedSlides)
    /\ UNCHANGED <<synthesis, hydrations, genCount, editCount, regenCount>>
    /\ UNCHANGED <<deckAtCall, nav, panelVars>>

\* ------------------------------------------------------------ BrandingPanel
\* The configurations the controls of the panel pass to onChange.
BrandingChanges(config) ==
    {[config EXCEPT !.illustrationStyle = st] : st \in {"flat", "minimalist"}}
        \cup {[config EXCEPT !.mode = m] : m \in {"light", "dark"}}
        \cup {[config EXCEPT !.borderRadius = r] : r \in BorderRadii}

\* onChange = setBranding, called by a control of the panel.
SetBranding(config) ==
    /\ config # branding
    /\ branding' = config
    /\ UNCHANGED <<allSlides, visibleSlides, status, timer, synthesis, hydrations,
                   regens, genCount, editCount, regenCount, deckAtCall, nav>>
    /\ UNCHANGED <<geometry, pointer, split, dataTransfer, view, pdf>>

\* --------------------------------------------- VisualElement pointer gestures
\* The element shows an image that has content and is not being edited, so
\* the drag, the resize handle and the scale control are all available.
\* A commit goes through updateVisual and re-renders the element, which sets
\* the container's style width from the committed width.
DeckUnchanged ==
    UNCHANGED <<allSlides, visibleSlides, status, timer, synthesis, hydrations,
                regens, genCount, editCount, regenCount, deckAtCall, nav>>

HandleMouseDown(x, y) ==
    /\ ~pointer.isDragging /\ ~pointer.isResizing
    /\ pointer' = [pointer EXCEPT
          !.isDragging = TRUE,
          !.startPos = [@ EXCEPT !.x = x, !.y = y,
                                 !.vPos = OrDefault(geometry.verticalPos, 250),
                                 !.hPos = OrDefault(geometry.horizontalPos, 250)]]
    /\ UNCHANGED <<geometry, branding, split, dataTransfer, view, pdf>>
    /\ DeckUnchanged

HandleResizeStart(x, rounding) ==
    /\ ~pointer.isDragging /\ ~pointer.isResizing
    /\ pointer' = [pointer EXCEPT
          !.isResizing = TRUE,
          !.startPos = [@ EXCEPT
              !.x = x,
              !.width = RectWidth(pointer.styleWidth, pointer.parentWidth, rounding)]]
    /\ UNCHANGED <<geometry, branding, split, dataTransfer, view, pdf>>
    /\ DeckUnchanged

\* The positions a drag to (x, y) gives: start + delta * 0.2, clamped.
DragPosition(startPos, x, y) ==
    LET deltaX == startPos.x - x
        deltaY == startPos.y - y
    IN [newH |-> Clamp(0, 500, startPos.hPos + deltaX),
        newV |-> Clamp(0, 500, startPos.vPos + deltaY)]

\* newPercent of handleMouseMove: the start width plus the delta, as a
\* percentage of the parent's width, clamped to [20, 100].
ResizePercent(startPos, x, parentWidth) ==
    LET deltaX == x - startPos.x
    IN ClampWidth(Ratio(startPos.width + deltaX * PxUnits, parentWidth))

HandleMouseMove(x, y) ==
    /\ pointer.isDragging \/ pointer.isResizing
    /\ pointer' =
          IF pointer.isDragging
          THEN LET d == DragPosition(pointer.startPos, x, y)
               IN [pointer EXCEPT !.objectPosition = <<d.newH, d.newV>>]
          ELSE [pointer EXCEPT
                   !.styleWidth = ResizePercent(pointer.startPos, x, pointer.parentWidth)]
    /\ UNCHANGED <<geometry, branding, split, dataTransfer, view, pdf>>
    /\ DeckUnchanged

\* The width handleMouseUp commits: the measured width of the container as a
\* percentage of the measured width of its parent.
ReleasedWidth(styleWidth, parentWidth, rounding) ==
    Ratio(RectWidth(styleWidth, parentWidth, rounding), parentWidth)

\* The positions handleMouseUp commits on a drag release.
DragRelease(startPos, x, y) == DragPosition(startPos, x, y)

HandleMouseUp(x, y, rounding) ==
    /\ pointer.isDragging \/ pointer.isResizing
    /\ geometry' =
          IF pointer.isDragging
          THEN LET d == DragRelease(pointer.startPos, x, y)
               IN [geometry EXCEPT !.horizontalPos = d.newH, !.verticalPos = d.newV]
          ELSE [geometry EXCEPT
                   !.width = ReleasedWidth(pointer.styleWidth, pointer.parentWidth,
                                           rounding)]
    /\ pointer' = [pointer EXCEPT
          !.isDragging = FALSE, !.isResizing = FALSE,
          !.styleWidth = WidthStyle(geometry'.width),
          !.objectPosition = <<OrDefault(geometry'.horizontalPos, 250),
                               OrDefault(geometry'.verticalPos, 250)>>]
    /\ UNCHANGED <<branding, split, dataTransfer, view, pdf>>
    /\ DeckUnchanged

\* onChange of the scale control: updateVisual({ scale: parseFloat(value) }).
HandleScaleChange(raw) ==
    /\ ~pointer.isDragging /\ ~pointer.isResizing
    /\ geometry' = [geometry EXCEPT !.scale = RangeValue(raw)]
    /\ UNCHANGED <<pointer, branding, split, dataTransfer, view, pdf>>
    /\ DeckUnchanged

\* -------------------------------------------------- rendering in columns
\* renderContent on a slide with the content at hand, in the TWO_COLUMN
\* (k = 2) or the THREE_COLUMN (k = 3) layout.
RenderColumns(k) ==
    /\ split' = [content |-> split.content, k |-> k,
                 columns |-> IF k = 2 THEN TwoColumns(split.content)
                             ELSE ThreeColumns(split.content)]
    /\ split' # split
    /\ UNCHANGED <<branding, geometry, pointer, dataTransfer, view, pdf>>
    /\ DeckUnchanged

\* ------------------------------------------------------------ content blocks
\* slide.visual && slide.visual.type !== 'none'
HasVisual(slide) == slide.visual.present /\ slide.visual.type # "none"

\* The indices (from 0) of the content items drawn as a DraggableBlock.
BlockIndexes(slide) ==
    LET n == Len(slide.content)
        all == 0..(n - 1)
    IN CASE slide.layout = "TWO_COLUMN" ->
              IF HasVisual(slide) THEN 0..(MathCeil(n, 2) - 1) ELSE all
         [] slide.layout = "THREE_COLUMN" -> all
         [] slide.layout \in {"TITLE", "QUOTE", "BIG_NUMBER", "SECTION_HEADER",
                              "CLOSING"} -> {}
         [] OTHER -> all

\* Array.prototype.splice(start, deleteCount, ...items) for 0 <= start: the
\* array after the call and the elements removed.
Splice(arr, start, deleteCount, items) ==
    LET len == Len(arr)
        actualStart == MathMin(start, len)
        actualDelete == MathMin(deleteCount, len - actualStart)
    IN [array |-> SubSeq(arr, 1, actualStart) \o items
                     \o SubSeq(arr, actualStart + actualDelete + 1, len),
        removed |-> SubSeq(arr, actualStart + 1, actualStart + actualDelete)]

\* handleDeleteBlock: slide.content.filter((_, i) => i !== idx)
DeleteBlock(content, idx) ==
    LET kept == {k \in 1..Len(content) : k - 1 # idx}
        Pos(k) == Cardinality({j \in kept : j <= k})
    IN [q \in 1..Cardinality(kept) |-> content[CHOOSE k \in kept : Pos(k) = q]]

\* The copy appended to the array instead.
DuplicateBlock_AtEnd(content, idx) ==
    Append(content, IF idx < Len(content) THEN content[idx + 1] ELSE Undef)

\* handleDuplicateBlock: newContent.splice(idx + 1, 0, newContent[idx])
DuplicateBlock(content, idx) ==
    Splice(content, idx + 1, 0,
           <<IF idx < Len(content) THEN content[idx + 1] ELSE Undef>>).array

\* The characters of the decimal digits.
DigitChars == <<"0", "1", "2", "3", "4", "5", "6", "7", "8", "9">>

\* Number.prototype.toString() of an index below 100.
IndexToString(index) ==
    IF index < 10 THEN <<DigitChars[index + 1]>>
    ELSE <<DigitChars[(index \div 10) + 1], DigitChars[(index % 10) + 1]>>

NaN == [nan |-> TRUE, value |-> 0]

DigitValue(char) == (CHOOSE d \in 1..10 : DigitChars[d] = char) - 1

IsDigit(char) == \E d \in 1..10 : DigitChars[d] = char

\* parseInt(text): the number its leading digits denote, NaN without one.
RECURSIVE LeadingValue(_, _)
LeadingValue(text, acc) ==
    IF text = <<>> \/ ~IsDigit(Head(text)) THEN acc
    ELSE LeadingValue(Tail(text), acc * 10 + DigitValue(Head(text)))

ParseInt(text) ==
    IF text = <<>> \/ ~IsDigit(Head(text)) THEN NaN
    ELSE [nan |-> FALSE, value |-> LeadingValue(text, 0)]

\* ToIntegerOrInfinity of a splice argument: NaN is 0.
ToInteger(number) == IF number.nan THEN 0 ELSE number.value

\* handleReorder: const [movedItem] = newContent.splice(from, 1);
\* newContent.splice(to, 0, movedItem)
Reorder(content, from, to) ==
    LET taken == Splice(content, ToInteger(from), 1, <<>>)
        movedItem == IF taken.removed = <<>> THEN Undef ELSE taken.removed[1]
    IN Splice(taken.array, to, 0, <<movedItem>>).array

\* The Duplicate button of the block at idx of a rendered slide; no button
\* can be clicked during a drag.
HandleDuplicateBlock(slide, idx) ==
    /\ dataTransfer = NoData
    /\ SlideUpdate(slide.id, [content |-> DuplicateBlock(slide.content, idx)])
    /\ UNCHANGED panelVars

\* The Delete button of the block at idx of a rendered slide.
HandleDeleteBlock(slide, idx) ==
    /\ dataTransfer = NoData
    /\ SlideUpdate(slide.id, [content |-> DeleteBlock(slide.content, idx)])
    /\ UNCHANGED panelVars

\* handleDragStart of the block at index: the drag carries index.toString().
HandleDragStart(index) ==
    /\ ~nav.isPresenting
    /\ dataTransfer = NoData
    /\ dataTransfer' = IndexToString(index)
    /\ UNCHANGED <<deckState, nav, branding, geometry, pointer, split, view, pdf>>

\* The drag ends without a drop on a block.
DragEnd ==
    /\ dataTransfer # NoData
    /\ dataTransfer' = NoData
    /\ UNCHANGED <<deckState, nav, branding, geometry, pointer, split, view, pdf>>

\* handleDrop of the block at index of a rendered slide, which ends the drag.
HandleDrop(slide, index) ==
    /\ dataTransfer # NoData
    /\ dataTransfer' = NoData
    /\ LET fromIndex == ParseInt(dataTransfer)
       IN IF fromIndex # [nan |-> FALSE, value |-> index]
          THEN SlideUpdate(slide.id,
                           [content |-> Reorder(slide.content, fromIndex, index)])
          ELSE ~nav.isPresenting /\ UNCHANGED deckState /\ UNCHANGED nav
    /\ UNCHANGED <<branding, geometry, pointer, split, view, pdf>>

\* ------------------------------------------------------------ SlideRenderer
\* enum SlideLayout
Layouts ==
    {"TITLE", "AGENDA", "SECTION_HEADER", "CONTENT_BULLETS", "TWO_COLUMN",
     "CLOSING", "QUOTE", "BIG_NUMBER", "THREE_COLUMN"}

\* What renderContent returns: the case of the switch that returned, the
\* columns of content blocks it draws, and where it mounts VisualElement.
Drawn(shown, columns, visualAt) ==
    [shown |-> shown, columns |-> columns, visualAt |-> visualAt]

\* slide.content[0] || fallback
FirstOr(content, fallback) ==
    IF Len(content) > 0 /\ content[1] # "" THEN content[1] ELSE fallback

\* The TWO_COLUMN case drawing the right column next to the visual.
RenderTwoColumn_KeepsRight(slide, borderRadius) ==
    LET cols == TwoColumns(slide.content)
    IN Drawn("TWO_COLUMN", cols,
             IF HasVisual(slide) THEN "column 2" ELSE "nowhere")

\* The TWO_COLUMN case: the left column always; then, outside full bleed,
\* the visual or else the right column in the second grid cell; in full
\* bleed the visual in the right half of the slide.
RenderTwoColumn(slide, borderRadius) ==
    LET cols == TwoColumns(slide.content)
        leftCol == cols[1]
        rightCol == cols[2]
        isFullBleed == borderRadius = "rounded-none" /\ HasVisual(slide)
    IN IF ~isFullBleed
       THEN IF HasVisual(slide)
            THEN Drawn("TWO_COLUMN", <<leftCol>>, "column 2")
            ELSE Drawn("TWO_COLUMN", <<leftCol, rightCol>>, "nowhere")
       ELSE IF slide.visual.present
            THEN Drawn("TWO_COLUMN", <<leftCol>>, "right half")
            ELSE Drawn("TWO_COLUMN", <<leftCol>>, "nowhere")

\* renderContent: switch (slide.layout).  Every case returns and `default`
\* is a case (it shares the body of CONTENT_BULLETS), so the return after
\* the switch, <div>Layout not implemented</div>, is never evaluated.
RenderContent(slide, borderRadius) ==
    CASE slide.layout = "TITLE" -> Drawn("TITLE", <<>>, "nowhere")
      [] slide.layout = "TWO_COLUMN" -> RenderTwoColumn(slide, borderRadius)
      [] slide.layout = "THREE_COLUMN" ->
            Drawn("THREE_COLUMN", ThreeColumns(slide.content), "nowhere")
      [] slide.layout = "QUOTE" ->
            Drawn("QUOTE", <<<<FirstOr(slide.content, "Insert quote here")>>>>,
                  "nowhere")
      [] slide.layout = "BIG_NUMBER" ->
            Drawn("BIG_NUMBER", <<<<FirstOr(slide.content, "100%")>>>>, "nowhere")
      [] slide.layout = "SECTION_HEADER" -> Drawn("SECTION_HEADER", <<>>, "nowhere")
      [] slide.layout = "CLOSING" -> Drawn("CLOSING", <<>>, "nowhere")
      [] OTHER ->
            Drawn("CONTENT_BULLETS", <<slide.content>>,
                  IF HasVisual(slide) /\ slide.visual.type # "icon"
                  THEN "beside" ELSE "nowhere")

\* The masthead test leaving CLOSING out.
HasMasthead_ClosingToo(layout) == layout \notin {"SECTION_HEADER", "TITLE"}

\* The condition on <AccentBar /> and on <Footer /> (lines 1312 and 1314).
HasMasthead(layout) == layout \notin {"CLOSING", "SECTION_HEADER", "TITLE"}

\* What SlideRenderer returns for a defined slide.
SlideRenderer(slide, config) ==
    [content |-> RenderContent(slide, config.borderRadius),
     accentBar |-> HasMasthead(slide.layout),
     footer |-> HasMasthead(slide.layout)]

\* ---------------------------------------------------------- handleExportPPTX
\* masterName of pres.addSlide (line 281).
MasterName(layout) ==
    IF layout \notin {"TITLE", "SECTION_HEADER", "CLOSING"}
    THEN "MASTER_SLIDE" ELSE Undef

\* The body of allSlides.forEach on one slide: the master, the branch taken,
\* the text boxes of content items and the picture added.
PptxSlide(slide) ==
    LET base == [masterName |-> MasterName(slide.layout), columns |-> <<>>,
                 picture |-> "none"]
    IN CASE slide.layout \in {"TITLE", "SECTION_HEADER", "CLOSING"} -> base
         [] OTHER ->
              IF slide.visual.present /\ slide.visual.type \in {"illustration", "image"}
              THEN [base EXCEPT
                       !.picture = IF Truthy(slide.visual.contentUrl)
                                   THEN "image" ELSE "placeholder",
                       !.columns = <<slide.content>>]
              ELSE IF slide.layout = "TWO_COLUMN"
              THEN LET mid == MathCeil(Len(slide.content), 2)
                   IN [base EXCEPT
                          !.columns = <<Slice(slide.content, 0, mid),
                                        Slice(slide.content, mid, Len(slide.content))>>]
              ELSE IF slide.layout = "BIG_NUMBER"
              THEN [base EXCEPT !.columns = <<Slice(slide.content, 0, 1)>>]
              ELSE [base EXCEPT !.columns = <<slide.content>>]

\* A SlideRenderer is rendered for the slide at hand under the branding.
Render ==
    /\ view' = [view EXCEPT !.rendered = <<SlideRenderer(view.slide, branding)>>]
    /\ view' # view
    /\ UNCHANGED <<branding, geometry, pointer, split, dataTransfer, pdf>>
    /\ DeckUnchanged

\* The exporter adds the slide at hand to the presentation file.
ExportSlide ==
    /\ view' = [view EXCEPT !.exported = <<PptxSlide(view.slide)>>]
    /\ view' # view
    /\ UNCHANGED <<branding, geometry, pointer, split, dataTransfer, pdf>>
    /\ DeckUnchanged

\* ------------------------------------------------- steps and presentation
\* The entries of the navigation bar: "1. Content" always, the other two
\* when allSlides is not empty.
SetStep(n) ==
    /\ ~nav.isPresenting
    /\ n = 1 \/ Len(allSlides) > 0
    /\ nav' = [nav EXCEPT !.step = n]
    /\ UNCHANGED <<deckState, panelVars>>

\* "Finalize & Export" of step 2, shown when the deck is not streaming.
FinalizeAndExport ==
    /\ ~nav.isPresenting
    /\ nav.step = 2
    /\ ~status.isStreaming
    /\ nav' = [nav EXCEPT !.step = 3]
    /\ UNCHANGED <<deckState, panelVars>>

\* "Adjust Style" of step 3.
AdjustStyle ==
    /\ ~nav.isPresenting
    /\ nav.step = 3
    /\ nav' = [nav EXCEPT !.step = 2]
    /\ UNCHANGED <<deckState, panelVars>>

\* startPresentation, from the button of step 3.
StartPresentation ==
    /\ ~nav.isPresenting
    /\ nav.step = 3
    /\ nav' = [nav EXCEPT !.currentSlideIndex = 0, !.isPresenting = TRUE]
    /\ UNCHANGED <<deckState, panelVars>>

\* prev => Math.min(prev + 1, allSlides.length - 1), and the Next button.
NextIndex(prev, length) == MathMin(prev + 1, length - 1)

\* prev => Math.max(prev - 1, 0), and the Previous button.
PreviousIndex(prev) == MathMax(prev - 1, 0)

\* The keydown listener of the presentation.
HandleKeyDown(key) ==
    /\ nav.isPresenting
    /\ nav' =
          CASE key \in {"ArrowRight", " ", "Enter"} ->
                 [nav EXCEPT !.currentSlideIndex = NextIndex(@, Len(allSlides))]
            [] key = "ArrowLeft" ->
                 [nav EXCEPT !.currentSlideIndex = PreviousIndex(@)]
            [] key = "Escape" -> [nav EXCEPT !.isPresenting = FALSE]
    /\ UNCHANGED <<deckState, panelVars>>

\* The Previous, Next and close buttons of the overlay.
OverlayButton(button) ==
    /\ nav.isPresenting
    /\ nav' =
          CASE button = "Next" ->
                 [nav EXCEPT !.currentSlideIndex = NextIndex(@, Len(allSlides))]
            [] button = "Previous" ->
                 [nav EXCEPT !.currentSlideIndex = PreviousIndex(@)]
            [] button = "X" -> [nav EXCEPT !.isPresenting = FALSE]
    /\ UNCHANGED <<deckState, panelVars>>

\* ----------------------------------------------------------- handleExportPDF
\* document.getElementById(slide.id): the slides of allSlides are mounted
\* with their id on the page of step 3 only.
ElementFound(slide) ==
    /\ nav.step = 3
    /\ ~nav.isPresenting
    /\ \E k \in 1..Len(allSlides) : allSlides[k].id = slide.id

\* The first position from i on whose element is found, or past the end.
RECURSIVE NextCapture(_, _)
NextCapture(slides, i) ==
    IF i > Len(slides) \/ ElementFound(slides[i]) THEN i
    ELSE NextCapture(slides, i + 1)

\* The loop from position i on, up to its next await or, past the last
\* slide, pdf.save and the finally block.
RunLoop(export, i) ==
    LET j == NextCapture(export.slides, i)
    IN IF j <= Len(export.slides)
       THEN [export EXCEPT !.i = j]
       ELSE [export EXCEPT !.i = 0, !.saved = <<export.pages>>, !.exporting = "null"]

\* handleExportPDF up to its first await: new jsPDF has one empty page.
HandleExportPDF ==
    /\ nav.step = 3
    /\ ~nav.isPresenting
    /\ pdf.exporting = "null"
    /\ pdf' = RunLoop([exporting |-> "pdf", called |-> TRUE, slides |-> allSlides,
                       i |-> 0, pages |-> << <<>> >>, saved |-> <<>>,
                       alerted |-> FALSE], 1)
    /\ UNCHANGED <<deckState, nav, branding, geometry, pointer, split,
                   dataTransfer, view>>

\* html2canvas settled for the slide at position pdf.i.  On success the
\* image goes onto a new page (onto the first page for the first slide) and
\* the loop goes on; a rejection, or toDataURL throwing, lands in the catch
\* block (alert) and the finally block.
CaptureSettle(outcome) ==
    /\ pdf.exporting = "pdf"
    /\ pdf.i > 0
    /\ pdf' =
          IF outcome = "ok"
          THEN LET added == IF pdf.i > 1 THEN Append(pdf.pages, <<>>) ELSE pdf.pages
                   drawn == [added EXCEPT
                                ![Len(added)] = Append(@, pdf.slides[pdf.i].id)]
               IN RunLoop([pdf EXCEPT !.pages = drawn], pdf.i + 1)
          ELSE [pdf EXCEPT !.i = 0, !.alerted = TRUE, !.exporting = "null"]
    /\ UNCHANGED <<deckState, nav, branding, geometry, pointer, split,
                   dataTransfer, view>>

\* ------------------------------------------------------------ specifications
Generate ==
    \/ HandleGenerate
    \/ \E n \in 0..MaxDeck, p \in Patterns : SynthesisResolve(n, p)
    \/ SynthesisFail

Hydrate == \E h \in hydrations, ok \in BOOLEAN : HydrationResolve(h, ok)

Edit == \E s \in Rendered : \E u \in UpdatesFor(s) : HandleSlideUpdate(s.id, u)

Regenerate ==
    \/ \E s \in Rendered : StartRegenerate(s)
    \/ \E r \in regens, o \in {"ok", "empty", "throw"} : RegenerateResolve(r, o)

Next == Generate \/ Tick \/ Hydrate \/ Edit \/ Regenerate

Spec == Init /\ [][Next]_vars

\* The deck under synthesis, reveal, hydration and edits alone.
NextReveal == Generate \/ Tick \/ Hydrate \/ Edit

SpecReveal == Init /\ [][NextReveal]_vars

\* One deck: a single handleGenerate call, then every operation on its deck.
FirstGenerate == genCount = 0 /\ HandleGenerate

NextOneDeck ==
    \/ FirstGenerate
    \/ \E n \in 0..MaxDeck, p \in Patterns : SynthesisResolve(n, p)
    \/ Tick \/ Hydrate \/ Edit \/ Regenerate

SpecOneDeck == Init /\ [][NextOneDeck]_vars

\* One synthesis and its reveal, with a reveal timer that fires: setTimeout
\* runs its callback unless the cleanup clears it first.
NextRevealOnce ==
    \/ FirstGenerate
    \/ \E n \in 0..MaxDeck, p \in Patterns : SynthesisResolve(n, p)
    \/ SynthesisFail
    \/ Tick \/ Hydrate \/ Edit

FairRevealOnce == Init /\ [][NextRevealOnce]_vars /\ WF_vars(Tick)

\* One deck, with the branding panel in use.
NextBranding ==
    \/ NextOneDeck
    \/ SynthesisFail
    \/ \E config \in BrandingChanges(branding) : SetBranding(config)

SpecBranding == Init /\ [][NextBranding]_vars

\* The pointer gestures and the scale control of one VisualElement.
PointerPositions == {<<0, 0>>, <<100, -100>>, <<-3000, 3000>>}

RawScales == {-50, 17, 99}

ParentWidths == {300 * PxUnits, 333 * PxUnits}

InitGeometry ==
    /\ DeckInit
    /\ RestInit
    /\ branding = DefaultBranding
    /\ geometry = UnsetGeometry
    /\ pointer \in {IdlePointer(w) : w \in ParentWidths}
    /\ split = NoSplit

NextGeometry ==
    \/ \E xy \in PointerPositions : HandleMouseDown(xy[1], xy[2])
    \/ \E xy \in PointerPositions, rounding \in Roundings :
          HandleResizeStart(xy[1], rounding)
    \/ \E xy \in PointerPositions : HandleMouseMove(xy[1], xy[2])
    \/ \E xy \in PointerPositions, rounding \in Roundings :
          HandleMouseUp(xy[1], xy[2], rounding)
    \/ \E raw \in RawScales : HandleScaleChange(raw)

SpecGeometry == InitGeometry /\ [][NextGeometry]_vars

\* The column layouts on every content array of up to MaxItems items.
InitColumns ==
    /\ DeckInit
    /\ RestInit
    /\ branding = DefaultBranding
    /\ geometry = UnsetGeometry
    /\ pointer = IdlePointer(300 * PxUnits)
    /\ split \in {[NoSplit EXCEPT !.content = c] : c \in Contents}

NextColumns == \E k \in {2, 3} : RenderColumns(k)

SpecColumns == InitColumns /\ [][NextColumns]_vars

\* One slide of every layout, content length and visual, projected by the
\* renderer and by the exporter under both corner-radius modes.
ItemNames == <<"a", "b", "c", "d", "e", "f", "g", "h">>

ContentOfLength(n) == SubSeq(ItemNames, 1, n)

ViewVisuals ==
    {NoVisual} \cup {SynthVisual(t) : t \in {"none", "icon", "image", "illustration"}}

\* "TIMELINE" stands for a layout value outside the enum.
ViewSlides ==
    {[id |-> <<1, 1>>, title |-> "T", layout |-> l, content |-> ContentOfLength(n),
      visual |-> v] :
        l \in Layouts \cup {"TIMELINE"}, n \in 0..MaxBlocks, v \in ViewVisuals}

InitRender ==
    /\ DeckInit
    /\ branding \in {[DefaultBranding EXCEPT !.borderRadius = r] : r \in BorderRadii}
    /\ geometry = UnsetGeometry
    /\ pointer = IdlePointer(300 * PxUnits)
    /\ split = NoSplit
    /\ dataTransfer = NoData
    /\ view \in {[NoView EXCEPT !.slide = sl] : sl \in ViewSlides}
    /\ pdf = NoExport

NextRender == Render \/ ExportSlide

SpecRender == InitRender /\ [][NextRender]_vars

\* One deck, the pages of the three steps and the presentation, and the
\* PDF export.
Navigate ==
    \/ \E n \in 1..3 : SetStep(n)
    \/ FinalizeAndExport
    \/ AdjustStyle

Present ==
    \/ StartPresentation
    \/ \E key \in {"ArrowRight", " ", "Enter", "ArrowLeft", "Escape"} :
          HandleKeyDown(key)
    \/ \E button \in {"Previous", "Next", "X"} : OverlayButton(button)

ExportPDF ==
    \/ HandleExportPDF
    \/ \E outcome \in {"ok", "raise"} : CaptureSettle(outcome)

NextExport ==
    \/ FirstGenerate
    \/ \E n \in 0..MaxDeck, p \in Patterns : SynthesisResolve(n, p)
    \/ Tick
    \/ Navigate
    \/ StartPresentation
    \/ OverlayButton("X")
    \/ ExportPDF

SpecExport == Init /\ [][NextExport]_vars

\* One deck and the controls of its content blocks.  The patterns give a
\* deck with a CONTENT_BULLETS slide next to a TWO_COLUMN slide.
BlockPatterns == {2, 3}

Blocks ==
    \/ \E s \in Rendered : \E idx \in BlockIndexes(s) : HandleDuplicateBlock(s, idx)
    \/ \E s \in Rendered : \E idx \in BlockIndexes(s) : HandleDeleteBlock(s, idx)

Drags ==
    \/ \E s \in Rendered : \E index \in BlockIndexes(s) : HandleDragStart(index)
    \/ DragEnd
    \/ \E s \in Rendered : \E index \in BlockIndexes(s) : HandleDrop(s, index)

NextBlocks ==
    \/ FirstGenerate
    \/ \E n \in 0..MaxDeck, p \in BlockPatterns : SynthesisResolve(n, p)
    \/ Tick
    \/ Blocks
    \/ Drags

SpecBlocks == Init /\ [][NextBlocks]_vars

\* The deck with the pages of the three steps and the presentation: a slide
\* has its controls on the page that renders it, visibleSlides on step 2 and
\* allSlides on step 3.
RenderedOnPage ==
    IF nav.isPresenting THEN {}
    ELSE IF nav.step = 2 THEN {visibleSlides[i] : i \in 1..Len(visibleSlides)}
    ELSE IF nav.step = 3 THEN {allSlides[i] : i \in 1..Len(allSlides)}
    ELSE {}

EditOnPage ==
    \E s \in RenderedOnPage : \E u \in UpdatesFor(s) : HandleSlideUpdate(s.id, u)

RegenerateOnPage ==
    \/ \E s \in RenderedOnPage : StartRegenerate(s)
    \/ \E r \in regens, o \in {"ok", "empty", "throw"} : RegenerateResolve(r, o)

\* Without manual regeneration.
NextPresentationOnly ==
    Generate \/ Tick \/ Hydrate \/ EditOnPage \/ Navigate \/ Present

SpecPresentationOnly == Init /\ [][NextPresentationOnly]_vars

NextPresentation == NextPresentationOnly \/ RegenerateOnPage

SpecPresentation == Init /\ [][NextPresentation]_vars

\* ------------------------------------------------------------------ claims
IsPrefix(v, a) ==
    /\ Len(v) <= Len(a)
    /\ \A i \in 1..Len(v) : v[i] = a[i]

Complete == status.success /\ ~status.isStreaming /\ ~status.isGenerating

\* C1: while the deck is being revealed, under timer ticks, hydration merges
\* and handleSlideUpdate edits, visibleSlides is element for element (with
\* visual.contentUrl) the first Len(visibleSlides) slides of allSlides.
C1_PrefixDuringReveal ==
    status.isStreaming => IsPrefix(visibleSlides, allSlides)

\* A reveal in progress with a revealed slide hydrated and an edit applied.
C1_Witness ==
    /\ status.isStreaming
    /\ editCount > 0
    /\ Len(visibleSlides) >= 1
    /\ Len(visibleSlides) < Len(allSlides)
    /\ \E i \in 1..Len(visibleSlides) : Truthy(visibleSlides[i].visual.contentUrl)

\* C2 (as claimed): once the reveal has completed, visibleSlides equals
\* allSlides, whatever hydration merges, edits and regenerations follow.
C2_EqualOnceComplete ==
    Complete => visibleSlides = allSlides

\* C3: each tick appends exactly the slide at position Len(visibleSlides) of
\* the deck, so the revealed ids are the deck's ids in synthesis order, none
\* skipped, repeated or undefined.
C3_RevealOrder ==
    /\ [](\A i \in 1..Len(visibleSlides) : visibleSlides[i].id = <<genCount, i>>)
    /\ [][Len(visibleSlides') > Len(visibleSlides) =>
            /\ Len(visibleSlides) < Len(allSlides)
            /\ visibleSlides' =
                  Append(visibleSlides, allSlides[Len(visibleSlides) + 1])
            /\ allSlides[Len(visibleSlides) + 1] # UndefinedSlide]_vars

\* Two slides revealed with a hydration merged into a revealed slide.
C3_Witness ==
    /\ Len(visibleSlides) >= 2
    /\ \E i \in 1..Len(visibleSlides) : Truthy(visibleSlides[i].visual.contentUrl)

\* C4 (as claimed): after a successful synthesis of a deck of any length,
\* with no new synthesis started, the reveal reaches Complete with
\* Len(visibleSlides) = Len(allSlides).
C4_EventuallyComplete ==
    [](status.isStreaming =>
          <>(Complete /\ Len(visibleSlides) = Len(allSlides)))

\* The other half of C4, which the code keeps: a non-empty deck is revealed
\* to Complete.
C4_NonEmptyDeckCompletes ==
    [](status.isStreaming /\ Len(allSlides) > 0 =>
          <>(Complete /\ Len(visibleSlides) = Len(allSlides)))

\* C5: from Complete no step re-enters streaming, leaves a reveal timer
\* pending or appends to visibleSlides; only handleGenerate changes its
\* length, by emptying it.
C5_CompleteTerminal ==
    [][Complete =>
          /\ ~status'.isStreaming
          /\ timer' = <<>>
          /\ \/ Len(visibleSlides') = Len(visibleSlides)
             \/ visibleSlides' = <<>> /\ status'.isGenerating]_vars

\* Complete, with an edit and a regeneration merged afterwards.
C5_Witness ==
    /\ Complete
    /\ editCount > 0
    /\ \E i \in 1..Len(allSlides) : allSlides[i].visual.contentUrl = RegenUrl(1)
    /\ \E i \in 1..Len(allSlides) : allSlides[i].title = "T2"

\* C6 (as claimed): after the reset of a handleGenerate call no slide of an
\* earlier deck is visible.
C6_NoOldSlideVisible ==
    \A i \in 1..Len(visibleSlides) : visibleSlides[i].id[1] = genCount

\* C7 (as claimed): content resolved by a hydration issued for an earlier
\* deck is in no slide of a later deck.
C7_StaleHydrationDropped ==
    \A s \in Rendered :
        s.visual.contentUrl[1] = "hydrated" => s.visual.contentUrl[2] = s.id[1]

\* C8 (as claimed): a slide whose visual was regenerated keeps the
\* regenerated content when a hydration resolves afterwards.
C8_RegeneratedVisualKept ==
    \A i \in 1..Len(allSlides) :
        allSlides[i].visual.prompt = "p1" =>
            allSlides[i].visual.contentUrl[1] # "hydrated"

\* slide b is slide a but for visual.contentUrl.
SameButContentUrl(a, b) ==
    /\ a.id = b.id /\ a.title = b.title /\ a.layout = b.layout
    /\ a.content = b.content
    /\ a.visual.type = b.visual.type /\ a.visual.prompt = b.visual.prompt
    /\ a.visual.iconName = b.visual.iconName /\ a.visual.width = b.visual.width

\* slide b is slide a but for its visual.
SameButVisual(a, b) ==
    /\ a.id = b.id /\ a.title = b.title /\ a.layout = b.layout
    /\ a.content = b.content

\* C9: a step that consumes the hydration of position k changes nothing but
\* visual.contentUrl of the slide at position k, in allSlides and in
\* visibleSlides.
C9_HydrationIsolation ==
    [][\A h \in hydrations \ hydrations' :
          /\ Len(allSlides') = Len(allSlides)
          /\ Len(visibleSlides') = Len(visibleSlides)
          /\ \A i \in 1..Len(allSlides) :
                IF i = h.index
                THEN SameButContentUrl(allSlides[i], allSlides'[i])
                ELSE allSlides'[i] = allSlides[i]
          /\ \A i \in 1..Len(visibleSlides) :
                IF i = h.index
                THEN SameButContentUrl(visibleSlides[i], visibleSlides'[i])
                ELSE visibleSlides'[i] = visibleSlides[i]]_vars

\* A deck of two slides, one of them revealed and hydrated after an edit.
C9_Witness ==
    /\ Len(allSlides) >= 2
    /\ \E i \in 1..Len(visibleSlides) :
          /\ visibleSlides[i].visual.contentUrl[1] = "hydrated"
          /\ allSlides[i].visual.contentUrl[1] = "hydrated"
          /\ allSlides[i].title = "T2"

\* C10 (as claimed): the merge of a regeneration result changes nothing but
\* the visual of the targeted slide; all else is as it was just before the
\* merge.
C10_RegenerateFrame ==
    [][\A r \in regens \ regens' :
          /\ Len(allSlides') = Len(allSlides)
          /\ Len(visibleSlides') = Len(visibleSlides)
          /\ \A i \in 1..Len(allSlides) :
                IF allSlides[i].id = r.slideId
                THEN SameButVisual(allSlides[i], allSlides'[i])
                ELSE allSlides'[i] = allSlides[i]
          /\ \A i \in 1..Len(visibleSlides) :
                IF visibleSlides[i].id = r.slideId
                THEN SameButVisual(visibleSlides[i], visibleSlides'[i])
                ELSE visibleSlides'[i] = visibleSlides[i]]_vars

\* C11 (as claimed): when regenerations overlap, each targeted slide ends, in
\* allSlides and in visibleSlides, with the result of the request that
\* resolved last for it.  Step by step: the step that resolves request r
\* leaves r's result (or nothing, on an exception) in the targeted slide, and
\* every other slide that holds the result of another regeneration keeps it.
C11_LastResolvedWins ==
    [][\A r \in regens \ regens' :
          /\ \A i \in 1..Len(allSlides') :
                allSlides'[i].id = r.slideId =>
                    \/ allSlides'[i].visual.contentUrl \in {RegenUrl(r.req), EmptyUrl}
                    \/ allSlides' = allSlides /\ visibleSlides' = visibleSlides
          /\ \A i \in 1..Len(visibleSlides') :
                visibleSlides'[i].id = r.slideId =>
                    \/ visibleSlides'[i].visual.contentUrl \in {RegenUrl(r.req), EmptyUrl}
                    \/ allSlides' = allSlides /\ visibleSlides' = visibleSlides
          /\ Len(allSlides') = Len(allSlides)
          /\ \A i \in 1..Len(allSlides) :
                /\ allSlides[i].id # r.slideId
                /\ allSlides[i].visual.contentUrl[1] = "regenerated"
                => allSlides'[i].visual = allSlides[i].visual
          /\ Len(visibleSlides') = Len(visibleSlides)
          /\ \A i \in 1..Len(visibleSlides) :
                /\ visibleSlides[i].id # r.slideId
                /\ visibleSlides[i].visual.contentUrl[1] = "regenerated"
                => visibleSlides'[i].visual = visibleSlides[i].visual]_vars

\* The same-slide half of C11, which the code keeps: the step that resolves
\* request r leaves r's result in the targeted slide of both arrays.
C11_SameSlideLastWins ==
    [][\A r \in regens \ regens' :
          \/ allSlides' = allSlides /\ visibleSlides' = visibleSlides
          \/ /\ \A i \in 1..Len(allSlides') :
                   allSlides'[i].id = r.slideId =>
                       allSlides'[i].visual.contentUrl \in {RegenUrl(r.req), EmptyUrl}
             /\ \A i \in 1..Len(visibleSlides') :
                   visibleSlides'[i].id = r.slideId =>
                       visibleSlides'[i].visual.contentUrl \in {RegenUrl(r.req), EmptyUrl}]_vars

\* C19 (as claimed): every geometry value committed through the controls of
\* a visual is in range whatever the pointer delta: horizontalPos and
\* verticalPos in [0, 100], width in [20, 100], scale in [1, 3].
C19_GeometryClamped ==
    /\ geometry.horizontalPos # Unset => geometry.horizontalPos \in 0..500
    /\ geometry.verticalPos # Unset => geometry.verticalPos \in 0..500
    /\ geometry.scale # Unset => geometry.scale \in 10..30
    /\ geometry.width # UnsetWidth =>
          /\ geometry.width.den <= 5 * geometry.width.num
          /\ geometry.width.num <= geometry.width.den

\* The part of C19 the code keeps: the positions committed on a drag release
\* and the scale committed by the scale control are in range, and the width
\* never exceeds 100 nor falls a whole percent below 20.
C19_PositionsAndScaleClamped ==
    /\ geometry.horizontalPos # Unset => geometry.horizontalPos \in 0..500
    /\ geometry.verticalPos # Unset => geometry.verticalPos \in 0..500
    /\ geometry.scale # Unset => geometry.scale \in 10..30
    /\ geometry.width # UnsetWidth =>
          /\ 19 * geometry.width.den < 100 * geometry.width.num
          /\ geometry.width.num <= geometry.width.den

\* The least c with c * k >= n.
CeilDiv(n, k) == CHOOSE c \in 0..n : c * k >= n /\ (c = 0 \/ (c - 1) * k < n)

\* The concatenation of a sequence of sequences, in order.
RECURSIVE Concat(_)
Concat(chunks) ==
    IF chunks = <<>> THEN <<>> ELSE Head(chunks) \o Concat(Tail(chunks))

\* C20: a content array of n >= 0 items rendered in k columns (k = 2 or 3) is
\* split into k contiguous chunks of size ceil(n / k) (the last ones shorter
\* or empty), and the chunks concatenated in column order are the content
\* array again.
C20_ColumnSplitLossless ==
    split.k # 0 =>
        LET n == Len(split.content)
            size == CeilDiv(n, split.k)
        IN /\ Len(split.columns) = split.k
           /\ Concat(split.columns) = split.content
           /\ \A j \in 1..split.k :
                 Len(split.columns[j]) = Clamp(0, size, n - (j - 1) * size)

\* Four items in three columns: two, two and none.
C20_Witness ==
    /\ split.k = 3
    /\ Len(split.content) = 4
    /\ split.columns[3] = <<>>
    /\ split.columns[1] # split.columns[2]

\* The step that consumes request r left no content of r in the slide it
\* targets: the resolution threw or found nothing.
RegenerationFailed(r) ==
    ~ /\ r.slideIndex <= Len(allSlides')
      /\ allSlides'[r.slideIndex].visual.contentUrl = RegenUrl(r.req)

\* C12 (as claimed): when the image or icon resolution of a regeneration
\* fails, allSlides and visibleSlides are exactly as before (the slide keeps
\* its visual).
C12_RegenerateFailureNoChange ==
    [][\A r \in regens \ regens' :
          RegenerationFailed(r) =>
              allSlides' = allSlides /\ visibleSlides' = visibleSlides]_vars

\* The image half of C12, which the code keeps: a failed image resolution
\* leaves both arrays as they were.
C12_ImageFailureNoChange ==
    [][\A r \in regens \ regens' :
          RegenerationFailed(r) /\ r.type = "image" =>
              allSlides' = allSlides /\ visibleSlides' = visibleSlides]_vars

\* C13 (as claimed): when generateSlidesFromContent fails, allSlides and
\* visibleSlides hold the deck they held before the handleGenerate call, the
\* error message is recorded and the status is idle again.
C13_SynthesisFailureKeepsDeck ==
    [][synthesis = "awaiting" /\ synthesis' = "idle" /\ status'.error # "null" =>
          /\ allSlides' = deckAtCall.all
          /\ visibleSlides' = deckAtCall.vis
          /\ ~status'.isGenerating /\ ~status'.isStreaming]_vars

\* The status half of C13, which the code keeps: a failed synthesis records
\* the error and returns the status to idle, and a resolved one records none.
C13_SynthesisFailureStatus ==
    [][synthesis = "awaiting" /\ synthesis' = "idle" =>
          \/ /\ status'.error = "Failed to generate"
             /\ ~status'.isGenerating /\ ~status'.isStreaming /\ ~status'.success
             /\ allSlides' = allSlides /\ visibleSlides' = visibleSlides
          \/ status'.error = "null" /\ ~status'.isGenerating]_vars

\* The ids of a slide array, in order.
Ids(slides) == [i \in 1..Len(slides) |-> slides[i].id]

\* C14 (as claimed): no operation on the deck changes the id of a slide, and
\* the ids of allSlides stay the sequence synthesis produced until the next
\* synthesis: a step that is no step of handleGenerate leaves the ids of
\* allSlides as they are, and the ids of the slides already visible.
C14_IdentityStable ==
    [][genCount' = genCount /\ synthesis' = synthesis =>
          /\ Ids(allSlides') = Ids(allSlides)
          /\ Len(visibleSlides') >= Len(visibleSlides)
          /\ \A i \in 1..Len(visibleSlides) :
                visibleSlides'[i].id = visibleSlides[i].id]_vars

\* C15: every slide of a deck has an id built from the stamp of its
\* generation and its position, never the id the model returned, so the ids
\* of a deck are pairwise distinct though the model gave every slide the
\* same id.
C15_SynthesisIdsDistinct ==
    /\ \A i \in 1..Len(allSlides) :
          /\ allSlides[i].id[1] \in 1..genCount
          /\ allSlides[i].id[2] = i
          /\ \A p \in Patterns : allSlides[i].id # ModelId(p)
    /\ \A i, j \in 1..Len(allSlides) : i # j => allSlides[i].id # allSlides[j].id
    /\ \A i, j \in 1..Len(visibleSlides) :
          i # j => visibleSlides[i].id # visibleSlides[j].id

\* A deck of two slides, both revealed.
C15_Witness ==
    /\ Len(allSlides) >= 2
    /\ Len(visibleSlides) >= 2
    /\ allSlides[1].id # allSlides[2].id

\* The slide has no visual to hydrate: none at all, a visual of type 'none',
\* or a visual object without a type.
VisualLess(s) == ~s.visual.present \/ s.visual.type \in {"none", Undef}

\* C16 (as claimed): handleGenerate issues no resolution for a slide whose
\* visual is absent or of type 'none', and no hydration merge is ever applied
\* to such a slide.
C16_NoHydrationWithoutVisual ==
    /\ [][\A h \in hydrations' \ hydrations :
              /\ h.index <= Len(allSlides')
              /\ ~VisualLess(allSlides'[h.index])]_vars
    /\ [](\A s \in Rendered :
              s.visual.type \in {"none", Undef} =>
                  s.visual.contentUrl[1] # "hydrated")

\* The part of C16 the code keeps: the hydration loop issues a resolution
\* only for a slide that has a visual of another type than 'none'.
C16_NoRequestWithoutVisual ==
    [][\A h \in hydrations' \ hydrations :
          /\ h.index <= Len(allSlides')
          /\ ~VisualLess(allSlides'[h.index])]_vars

\* The hydration of the slide at position i resolved without content: the
\* slide needs hydration, none is pending for it and it has no content.
HydrationFailedAt(i) ==
    /\ synthesis = "idle"
    /\ i <= Len(allSlides)
    /\ NeedsHydration(allSlides[i])
    /\ allSlides[i].visual.contentUrl = NoUrl
    /\ [gen |-> genCount, index |-> i] \notin hydrations

\* C17: a hydration that fails or yields no content changes nothing: the
\* slide keeps contentUrl unset, the status and the reveal timer are as
\* before and the other hydrations stay pending; and the reveal of a deck
\* with a failed hydration still reaches Complete.
C17_HydrationFailureIsolated ==
    /\ [][\A h \in hydrations \ hydrations' :
              ~ /\ h.index <= Len(allSlides')
                /\ allSlides'[h.index].visual.contentUrl = HydrationUrl(h.gen, h.index)
              => /\ allSlides' = allSlides
                 /\ visibleSlides' = visibleSlides
                 /\ allSlides[h.index].visual.contentUrl = NoUrl
                 /\ status' = status
                 /\ timer' = timer
                 /\ hydrations' = hydrations \ {h}]_vars
    /\ (\E i \in 1..MaxDeck : HydrationFailedAt(i)) ~> Complete
    /\ [](Complete => status.error = "null")

\* The reveal has completed on a deck in which the hydration of one slide
\* failed and that of another slide was merged.
C17_Witness ==
    /\ Complete
    /\ \E i, j \in 1..Len(allSlides) :
          /\ HydrationFailedAt(i)
          /\ visibleSlides[i].visual.contentUrl = NoUrl
          /\ allSlides[j].visual.contentUrl[1] = "hydrated"
          /\ visibleSlides[j].visual.contentUrl[1] = "hydrated"

\* C18: no step of synthesis, reveal, hydration or regeneration changes the
\* branding: a step that changes it is a call of the panel's onChange and
\* changes nothing of the deck, its status, its timer or its requests.
C18_BrandingOnlyByPanel ==
    [][branding' # branding =>
          /\ allSlides' = allSlides /\ visibleSlides' = visibleSlides
          /\ status' = status /\ timer' = timer
          /\ synthesis' = synthesis /\ hydrations' = hydrations
          /\ regens' = regens
          /\ branding' \in BrandingChanges(branding)]_vars

\* The branding was changed and is still as set after a reveal, a hydration
\* merge and a regeneration have run.
C18_Witness ==
    /\ branding.illustrationStyle = "minimalist"
    /\ branding.mode = "dark"
    /\ Complete
    /\ regens = {}
    /\ \E i, j \in 1..Len(allSlides) :
          /\ allSlides[i].visual.contentUrl[1] = "hydrated"
          /\ allSlides[j].visual.contentUrl[1] = "regenerated"

\* C21: a THREE_COLUMN slide with 7 content items is split into columns of
\* 3, 2 and 2 items.
C21_SevenItemsThreeTwoTwo ==
    split.k = 3 /\ Len(split.content) = 7
        => <<Len(split.columns[1]), Len(split.columns[2]), Len(split.columns[3])>>
               = <<3, 2, 2>>

\* The sizes the code gives for 7 items: chunk = Math.ceil(7 / 3) = 3, so
\* slice(0, 3), slice(3, 6) and slice(6).
C21_SevenItemsThreeThreeOne ==
    split.k = 3 /\ Len(split.content) = 7
        => <<Len(split.columns[1]), Len(split.columns[2]), Len(split.columns[3])>>
               = <<3, 3, 1>>

\* The slide at hand was rendered with the TWO_COLUMN case.
RenderedTwoColumn == view.rendered # <<>> /\ view.slide.layout = "TWO_COLUMN"

\* C22: a TWO_COLUMN slide with no visual (absent or of type 'none') shows
\* its first ceil(n/2) items in the left column and the rest in the right
\* one; with a visual it shows the visual in place of the second column and
\* the left chunk only, in both corner-radius modes.
C22_TwoColumnComposition ==
    RenderedTwoColumn =>
        LET content == view.slide.content
            n == Len(content)
            half == CeilDiv(n, 2)
            drawn == view.rendered[1].content
        IN IF HasVisual(view.slide)
           THEN /\ drawn.visualAt # "nowhere"
                /\ drawn.columns = <<SubSeq(content, 1, half)>>
           ELSE /\ drawn.visualAt = "nowhere"
                /\ drawn.columns = <<SubSeq(content, 1, half), SubSeq(content, half + 1, n)>>

\* Five items and a visual in full bleed are drawn as the 3 left items and the
\* visual in the right half.
C22_Witness ==
    /\ RenderedTwoColumn
    /\ Len(view.slide.content) = 5
    /\ HasVisual(view.slide)
    /\ branding.borderRadius = "rounded-none"
    /\ view.rendered[1].content.visualAt = "right half"
    /\ view.rendered[1].content.columns = <<ContentOfLength(3)>>

\* Five items and no visual are drawn as columns of 3 and 2.
C22_FiveItemsNoVisual ==
    /\ RenderedTwoColumn
    /\ Len(view.slide.content) = 5
    /\ ~HasVisual(view.slide)
    /\ view.rendered[1].content.columns = <<<<"a", "b", "c">>, <<"d", "e">>>>

\* C23: a slide whose layout is not one of the nine enumerated layouts is
\* rendered as the "Layout not implemented" fallback.
C23_UnknownLayoutFallback ==
    view.rendered # <<>> /\ view.slide.layout \notin Layouts
        => view.rendered[1].content.shown = "NOT_IMPLEMENTED"

\* What the code does with such a slide: it is drawn by the default case, as
\* a CONTENT_BULLETS slide (and so is AGENDA, which has no case of its own).
C23_UnknownLayoutAsBullets ==
    view.rendered # <<>> /\ view.slide.layout \notin (Layouts \ {"AGENDA"})
        => /\ view.rendered[1].content.shown = "CONTENT_BULLETS"
           /\ view.rendered[1].content.columns = <<view.slide.content>>

\* C25: for every layout the exporter applies the master exactly when the
\* renderer draws AccentBar and Footer: for every layout but TITLE,
\* SECTION_HEADER and CLOSING.
C25_MastheadAgrees ==
    view.rendered # <<>> /\ view.exported # <<>> =>
        LET masthead == view.slide.layout \notin {"TITLE", "SECTION_HEADER", "CLOSING"}
        IN /\ (view.exported[1].masterName = "MASTER_SLIDE") <=> masthead
           /\ view.rendered[1].accentBar <=> masthead
           /\ view.rendered[1].footer <=> masthead

\* A CLOSING slide rendered and exported, without masthead and master.
C25_Witness ==
    /\ view.rendered # <<>> /\ view.exported # <<>>
    /\ view.slide.layout = "CLOSING"
    /\ ~view.rendered[1].accentBar
    /\ view.exported[1].masterName = Undef

\* C26: for every TWO_COLUMN slide the exporter places exactly the content
\* items the renderer shows, split into left and right at the same midpoint.
C26_TwoColumnExportAgrees ==
    RenderedTwoColumn /\ view.exported # <<>>
        => view.exported[1].columns = view.rendered[1].content.columns

\* The part that holds: without a visual the two projections agree.
C26_NoVisualAgrees ==
    RenderedTwoColumn /\ view.exported # <<>> /\ ~HasVisual(view.slide)
        => view.exported[1].columns = view.rendered[1].content.columns

\* A handleExportPDF call has run to its end.
ExportFinished == pdf.called /\ pdf.exporting = "null"

\* The pages hold one image each, of slides in the order of the deck.
OnePagePerSlideInOrder(pages, slides) ==
    /\ \A k \in 1..Len(pages) : Len(pages[k]) = 1
    /\ \E pos \in [1..Len(pages) -> 1..Len(slides)] :
          /\ \A k \in 1..Len(pages) : slides[pos[k]].id = pages[k][1]
          /\ \A k, l \in 1..Len(pages) : k < l => pos[k] < pos[l]

\* C24: whichever captures fail (element missing or capture raising),
\* handleExportPDF does not abort: it saves a document with one page per
\* captured slide, in slide order, and resets the exporting flag.
C24_ExportSkipsFailedCaptures ==
    ExportFinished =>
        /\ ~pdf.alerted
        /\ pdf.saved # <<>>
        /\ OnePagePerSlideInOrder(pdf.saved[1], pdf.slides)

\* The part that holds: slides whose element is missing are skipped, and a
\* run in which no capture raises saves one page per captured slide in order.
C24_MissingElementsSkipped ==
    ExportFinished /\ ~pdf.alerted =>
        /\ pdf.saved # <<>>
        /\ OnePagePerSlideInOrder(pdf.saved[1], pdf.slides)

\* The exporting flag is 'pdf' exactly while a call is at an await.
C24_ExportingFlag == (pdf.exporting = "pdf") <=> (pdf.i > 0)

\* A run that skipped a slide: two slides in the deck, one page saved.
C24_SkippedOne ==
    /\ ExportFinished
    /\ pdf.saved # <<>>
    /\ Len(pdf.slides) = 2
    /\ Len(pdf.saved[1]) = 1

\* new is old with a copy of the item at idx (from 0) inserted after it.
IsDuplicate(new, old, idx) ==
    /\ Len(new) = Len(old) + 1
    /\ \A k \in 1..Len(new) :
          new[k] = IF k <= idx + 1 THEN old[k] ELSE old[k - 1]

\* new is old without the item at idx (from 0).
IsDeletion(new, old, idx) ==
    /\ Len(new) = Len(old) - 1
    /\ \A k \in 1..Len(new) :
          new[k] = IF k <= idx THEN old[k] ELSE old[k + 1]

\* The step replaces the content of the slides with this id by new, in both
\* arrays, and nothing else of the deck.
OnlyContentOf(id, new) ==
    /\ allSlides' = [k \in 1..Len(allSlides) |->
          IF allSlides[k].id = id THEN [allSlides[k] EXCEPT !.content = new]
          ELSE allSlides[k]]
    /\ visibleSlides' = [k \in 1..Len(visibleSlides) |->
          IF visibleSlides[k].id = id THEN [visibleSlides[k] EXCEPT !.content = new]
          ELSE visibleSlides[k]]

\* The contents the slides with this id have after the step.
ContentsAfter(id) ==
    {allSlides'[k].content :
        k \in {j \in 1..Len(allSlides') : allSlides'[j].id = id}}
    \cup {visibleSlides'[k].content :
        k \in {j \in 1..Len(visibleSlides') : visibleSlides'[j].id = id}}

\* C27: duplicating the block at index i of a slide gives its content with a
\* copy of item i inserted at i + 1, deleting it gives the content without
\* that item; either replaces the content of that slide only, in allSlides
\* and in visibleSlides, and changes no other slide or field.
C27_DuplicateAndDelete ==
    [][\A s \in Rendered : \A idx \in BlockIndexes(s) :
          /\ HandleDuplicateBlock(s, idx) =>
                /\ ContentsAfter(s.id) # {}
                /\ \A new \in ContentsAfter(s.id) :
                      IsDuplicate(new, s.content, idx) /\ OnlyContentOf(s.id, new)
          /\ HandleDeleteBlock(s, idx) =>
                /\ ContentsAfter(s.id) # {}
                /\ \A new \in ContentsAfter(s.id) :
                      IsDeletion(new, s.content, idx) /\ OnlyContentOf(s.id, new)]_vars

\* A slide whose first item was duplicated and whose last item was then
\* deleted, in both arrays.
C27_Witness ==
    \E k \in 1..Len(visibleSlides) :
        /\ k <= Len(allSlides)
        /\ allSlides[k].content = <<"a", "a">>
        /\ visibleSlides[k].content = <<"a", "a">>

\* b holds the entries of a, each as many times (so no undefined entry that
\* a does not hold).
IsPermutation(b, a) ==
    /\ Len(b) = Len(a)
    /\ \A x \in {a[k] : k \in 1..Len(a)} \cup {b[k] : k \in 1..Len(b)} :
          Cardinality({k \in 1..Len(a) : a[k] = x})
              = Cardinality({k \in 1..Len(b) : b[k] = x})

\* C28: after a drop on a content block, whatever source index the drag
\* carries, the content of the target slide is a permutation of its content
\* before, and no other slide changes.
C28_ReorderIsPermutation ==
    [][\A s \in Rendered : \A index \in BlockIndexes(s) :
          HandleDrop(s, index) =>
              /\ ContentsAfter(s.id) # {}
              /\ \A new \in ContentsAfter(s.id) :
                    IsPermutation(new, s.content) /\ OnlyContentOf(s.id, new)]_vars

\* The drag carries an index inside content.
SourceInside(content) ==
    LET fromIndex == ParseInt(dataTransfer)
    IN ~fromIndex.nan /\ fromIndex.value < Len(content)

\* The part that holds: a drop whose source index lies inside the content of
\* the target slide permutes it.
C28_InsideIsPermutation ==
    [][\A s \in Rendered : \A index \in BlockIndexes(s) :
          (HandleDrop(s, index) /\ SourceInside(s.content)) =>
              /\ ContentsAfter(s.id) # {}
              /\ \A new \in ContentsAfter(s.id) :
                    IsPermutation(new, s.content) /\ OnlyContentOf(s.id, new)]_vars

\* A drop has moved the second block of a slide in front of the first.
C28_Reordered ==
    \E k \in 1..Len(allSlides) : allSlides[k].content = <<"b", "a">>

\* The regeneration was issued for a slide of a deck that a later
\* handleGenerate call has replaced.
IssuedForEarlierDeck(r) == r.slideId[1] < genCount

\* C29: a manual regeneration issued against one deck that resolves after a
\* new synthesis has replaced that deck does not modify the new deck:
\* allSlides keeps the ids of the latest synthesis, in order, and
\* visibleSlides stays a prefix of it.
C29_StaleRegenerationNoEffect ==
    [][\A r \in regens : \A outcome \in {"ok", "empty", "throw"} :
          (RegenerateResolve(r, outcome) /\ IssuedForEarlierDeck(r)) =>
              /\ Ids(allSlides') = Ids(allSlides)
              /\ IsPrefix(visibleSlides, allSlides)
                    => IsPrefix(visibleSlides', allSlides')]_vars

\* The part that holds: a regeneration that throws changes nothing, whatever
\* deck it was issued for.
C29_ThrownRegenerationNoEffect ==
    [][\A r \in regens :
          RegenerateResolve(r, "throw") =>
              allSlides' = allSlides /\ visibleSlides' = visibleSlides]_vars

\* C30: whenever presentation mode is active, currentSlideIndex is a position
\* of allSlides (0 <= currentSlideIndex <= allSlides.length - 1), so the slide
\* handed to the renderer is defined.
C30_PresentationIndexInBounds ==
    nav.isPresenting =>
        /\ 0 <= nav.currentSlideIndex
        /\ nav.currentSlideIndex <= Len(allSlides) - 1

\* The presentation is at the last slide of a deck of more than one slide.
C30_AtLastSlide ==
    /\ nav.isPresenting
    /\ Len(allSlides) > 1
    /\ nav.currentSlideIndex = Len(allSlides) - 1

====
